---- MODULE Spec2Model ----
(***************************************************************************)
(* Local Food Wastage Management System (src/app.py): the in-memory SQLite *)
(* store loaded from four CSV files, the CRUD statements on food_listings  *)
(* and claims, the form handlers that call them, and two of the dashboard  *)
(* queries (providers/receivers per city, food nearing expiry).            *)
(*                                                                         *)
(* A table is the sequence of its rows in rowid order: pandas' to_sql      *)
(* creates the tables without PRIMARY KEY, UNIQUE or FOREIGN KEY clauses,  *)
(* so a table is a list of rows and nothing else.  TEXT values that SQLite *)
(* compares (Expiry_Date, Timestamp) are sequences of character codes and  *)
(* are compared as SQLite's BINARY collation compares them.                *)
(***************************************************************************)
EXTENDS Integers, Sequences, FiniteSets, TLC

VARIABLES
    providers,       \* table providers      (loaded once, never written)
    receivers,       \* table receivers      (loaded once, never written)
    food_listings,   \* table food_listings
    claims,          \* table claims
    last,            \* the handler or call that ran last, and what it told its caller
    shown,           \* the rows the last dashboard query returned
    pc,              \* position of the running script(s): inside delete_food_listing_sql
                     \* (statement-level runs), or of each session (concurrent runs)
    ever_food_ids,   \* history: every Food_ID a listing ever had
    ever_claim_ids   \* history: every Claim_ID a claim ever had

vars == <<providers, receivers, food_listings, claims, last, shown, pc,
          ever_food_ids, ever_claim_ids>>

(***************************************************************************)
(* Bounds of the model.                                                    *)
(***************************************************************************)
MaxFoodId == 2       \* Food_IDs are drawn from 1..MaxFoodId
MaxClaimId == 2      \* Claim_IDs stay within 1..MaxClaimId
Today == 10          \* datetime.now() is day Today of the modelled month

(***************************************************************************)
(* Text.  A calendar date is a day of one month (2025-03, 31 days), so the *)
(* 'YYYY-MM-' prefix is fixed and DATE(..., '+N days') never leaves the    *)
(* month within the bounds used.                                           *)
(***************************************************************************)
Range(s) == {s[i] : i \in DOMAIN s}

Digit(n) == 48 + n

TwoDigits(n) == <<Digit(n \div 10), Digit(n % 10)>>

YearMonth == <<50, 48, 50, 53, 45, 48, 51, 45>>          \* "2025-03-"

Midnight == <<32, 48, 48, 58, 48, 48, 58, 48, 48>>       \* " 00:00:00"

ClockTime == <<32, 49, 50, 58, 48, 48, 58, 48, 48>>      \* " 12:00:00"

\* date.strftime('%Y-%m-%d')
strftime_date(d) == YearMonth \o TwoDigits(d)

\* datetime.strftime('%Y-%m-%d %H:%M:%S') of the clock reading on day d
strftime_datetime(d) == strftime_date(d) \o ClockTime

\* What to_sql stores for a pandas datetime64 value, day d at time-of-day text
\* tod: the text of datetime.isoformat(' '), 'YYYY-MM-DD HH:MM:SS'.
to_sql_datetime(d, tod) == strftime_date(d) \o tod

\* The calendar day a stored date text denotes (its DD digits).
ParseDay(t) == (t[9] - 48) * 10 + (t[10] - 48)

\* SQLite's comparison of two TEXT values under BINARY collation (memcmp over
\* the common prefix, then the shorter one is the smaller).
RECURSIVE TextLess(_, _)
TextLess(a, b) ==
    IF a = <<>> THEN b # <<>>
    ELSE IF b = <<>> THEN FALSE
    ELSE IF Head(a) # Head(b) THEN Head(a) < Head(b)
    ELSE TextLess(Tail(a), Tail(b))

TextLeq(a, b) == a = b \/ TextLess(a, b)

\* SQLite's DATE(t, '+n days')
sqlite_DATE(t, n) == strftime_date(ParseDay(t) + n)

(***************************************************************************)
(* Rows.                                                                   *)
(***************************************************************************)
ProviderRow(id, name, type, city, contact) ==
    [Provider_ID |-> id, Name |-> name, Type |-> type, City |-> city, Contact |-> contact]

ReceiverRow(id, name, type, city) ==
    [Receiver_ID |-> id, Name |-> name, Type |-> type, City |-> city]

ListingRow(food_id, food_name, quantity, expiry_text, provider_id, provider_type, location, food_type, meal_type) ==
    [Food_ID |-> food_id, Food_Name |-> food_name, Quantity |-> quantity,
     Expiry_Date |-> expiry_text, Provider_ID |-> provider_id,
     Provider_Type |-> provider_type, Location |-> location,
     Food_Type |-> food_type, Meal_Type |-> meal_type]

ClaimRow(claim_id, food_id, receiver_id, status, timestamp_text) ==
    [Claim_ID |-> claim_id, Food_ID |-> food_id, Receiver_ID |-> receiver_id,
     Status |-> status, Timestamp |-> timestamp_text]

FoodIds(t) == {t[i].Food_ID : i \in DOMAIN t}

ClaimIds(c) == {c[i].Claim_ID : i \in DOMAIN c}

MaxOf(S) == CHOOSE x \in S : \A y \in S : y <= x

(***************************************************************************)
(* The CRUD statements, as functions from a table to the table after the   *)
(* statement.  None of them can raise: the tables carry no constraint.     *)
(***************************************************************************)
\* INSERT INTO food_listings (...) VALUES (?, ?, ?, ?, ?, ?, ?, ?, ?)
add_food_listing_sql(t, food_id, food_name, quantity, expiry_date, provider_id, provider_type, location, food_type, meal_type) ==
    Append(t, ListingRow(food_id, food_name, quantity, strftime_date(expiry_date),
                         provider_id, provider_type, location, food_type, meal_type))

\* Variant: the UPDATE without its WHERE clause.
update_food_listing_sql_every_row(t, food_id, food_name, quantity, expiry_date, food_type, meal_type) ==
    [i \in DOMAIN t |->
        [t[i] EXCEPT !.Food_Name = food_name, !.Quantity = quantity,
                     !.Expiry_Date = strftime_date(expiry_date),
                     !.Food_Type = food_type, !.Meal_Type = meal_type]]

\* UPDATE food_listings SET Food_Name = ?, Quantity = ?, Expiry_Date = ?,
\*        Food_Type = ?, Meal_Type = ? WHERE Food_ID = ?
update_food_listing_sql(t, food_id, food_name, quantity, expiry_date, food_type, meal_type) ==
    [i \in DOMAIN t |->
        IF t[i].Food_ID = food_id
        THEN [t[i] EXCEPT !.Food_Name = food_name, !.Quantity = quantity,
                          !.Expiry_Date = strftime_date(expiry_date),
                          !.Food_Type = food_type, !.Meal_Type = meal_type]
        ELSE t[i]]

\* Variant: the cascade statement left out.
delete_claims_of_food_skipped(c, food_id) == c

\* DELETE FROM claims WHERE Food_ID = ?
delete_claims_of_food(c, food_id) ==
    SelectSeq(c, LAMBDA r : r.Food_ID # food_id)

\* Variant: the WHERE clause compares with <= instead of =.
delete_listing_row_upto(t, food_id) ==
    SelectSeq(t, LAMBDA r : r.Food_ID > food_id)

\* DELETE FROM food_listings WHERE Food_ID = ?
delete_listing_row(t, food_id) ==
    SelectSeq(t, LAMBDA r : r.Food_ID # food_id)

\* Variant: the insert skipped when the Claim_ID is taken (INSERT OR IGNORE on a key).
add_claim_sql_unless_taken(c, claim_id, food_id, receiver_id, status, timestamp) ==
    IF claim_id \in ClaimIds(c) THEN c
    ELSE Append(c, ClaimRow(claim_id, food_id, receiver_id, status,
                            strftime_datetime(timestamp)))

\* INSERT INTO claims (...) VALUES (?, ?, ?, ?, ?)
add_claim_sql(c, claim_id, food_id, receiver_id, status, timestamp) ==
    Append(c, ClaimRow(claim_id, food_id, receiver_id, status,
                       strftime_datetime(timestamp)))

\* max_food_id: the largest Food_ID of the table, 0 for an empty table
max_food_id(t) == IF t = <<>> THEN 0 ELSE MaxOf(FoodIds(t))

\* Variant: the row count instead of the largest id.
new_claim_id_by_count(c) == Len(c) + 1

\* Variant: the empty table not told apart, MAX read as 0 and no 1 added.
new_claim_id_from_zero(c) == IF c = <<>> THEN 0 ELSE MaxOf(ClaimIds(c)) + 1

\* new_claim_id: SELECT MAX(Claim_ID) is NULL on an empty table, then 1
new_claim_id(c) == IF c = <<>> THEN 1 ELSE MaxOf(ClaimIds(c)) + 1

\* Variant: the count of all listings, whatever their Food_ID.
food_exists_any(t, claim_food_id) == Len(t)

\* SELECT COUNT(*) FROM food_listings WHERE Food_ID = {claim_food_id}
food_exists(t, claim_food_id) ==
    Cardinality({i \in DOMAIN t : t[i].Food_ID = claim_food_id})

(***************************************************************************)
(* Inputs: what the CSV files hold and what the form widgets can return.   *)
(***************************************************************************)
days == 7            \* get_food_nearing_expiry_sql(days=7)

SampleProviders ==
    <<ProviderRow(1, "P1", "Restaurant", "CityA", "c1"),
      ProviderRow(2, "P2", "Grocery Store", "CityB", "c2")>>

SampleReceivers == <<ReceiverRow(1, "R1", "NGO", "CityA")>>

FormValue(food_name, quantity, expiry, food_type, meal_type) ==
    [food_name |-> food_name, quantity |-> quantity, expiry |-> expiry,
     food_type |-> food_type, meal_type |-> meal_type]

\* Values entered in the listing forms in the workflow runs.
CoreValues ==
    {FormValue("Bread", 1, Today + 1, "Vegetarian", "Breakfast"),
     FormValue("Rice", 2, Today + days, "Vegan", "Dinner")}

\* The add form also lets the name be left empty.
EmptyNameValue == FormValue("", 1, Today + 1, "Vegetarian", "Breakfast")

\* Values entered in the runs about the expiry window: the four days at its edges.
ExpiryValues ==
    {FormValue("Bread", 1, Today + k, "Vegetarian", "Lunch") : k \in {0, 1, days, days + 1}}

ClaimStatuses == {"Pending", "Completed"}

Idle == [at |-> "idle", food_id |-> 0, removed |-> 0]

Call(op, id, msg) == [op |-> op, id |-> id, msg |-> msg]

(***************************************************************************)
(* init_db: the four CSV files loaded into the tables.  Expiry_Date and    *)
(* Timestamp go through pd.to_datetime and are stored by to_sql as         *)
(* 'YYYY-MM-DD HH:MM:SS' text.  The files list their rows by ascending id. *)
(***************************************************************************)
RECURSIVE LoadRows(_, _, _)
LoadRows(present, row, n) ==
    IF n = 0 THEN <<>>
    ELSE IF n \in present THEN Append(LoadRows(present, row, n - 1), row[n])
    ELSE LoadRows(present, row, n - 1)

CsvListing(id, v, p) ==
    ListingRow(id, v.food_name, v.quantity, to_sql_datetime(v.expiry, Midnight),
               p.Provider_ID, p.Type, p.City, v.food_type, v.meal_type)

CsvClaim(id, food_id, r, status) ==
    ClaimRow(id, food_id, r.Receiver_ID, status, to_sql_datetime(Today, ClockTime))

load_csv(values, provs, statuses) ==
    /\ providers = SampleProviders
    /\ receivers = SampleReceivers
    /\ \E present \in SUBSET (1 .. MaxFoodId) :
        /\ \E f \in [present -> values \X provs] :
              food_listings =
                  LoadRows(present,
                           [n \in present |-> CsvListing(n, f[n][1], f[n][2])],
                           MaxFoodId)
        /\ \E cpresent \in SUBSET (1 .. MaxClaimId) :
              /\ \E g \in [cpresent -> present \X Range(SampleReceivers) \X statuses] :
                    claims =
                        LoadRows(cpresent,
                                 [n \in cpresent |-> CsvClaim(n, g[n][1], g[n][2], g[n][3])],
                                 MaxClaimId)
    /\ last = Call("init_db", 0, "success")
    /\ shown = <<>>
    /\ ever_food_ids = FoodIds(food_listings)
    /\ ever_claim_ids = ClaimIds(claims)

init_db(values, provs, statuses) ==
    /\ load_csv(values, provs, statuses)
    /\ pc = Idle

\* The CSV rows of the workflow runs: one kind of listing, of the first provider.
CsvValues == {FormValue("Bread", 1, Today + 1, "Vegetarian", "Breakfast")}

CsvProviders == {SampleProviders[1]}

Init == init_db(CsvValues, CsvProviders, ClaimStatuses)

(***************************************************************************)
(* delete_food_listing_sql: both statements, each committed by execute_dml.*)
(***************************************************************************)
delete_food_listing_sql(t, c, food_id) ==
    [food_listings |-> delete_listing_row(t, food_id),
     claims |-> delete_claims_of_food(c, food_id)]

(***************************************************************************)
(* The form handlers of one browser session.  A handler runs in the script *)
(* run its submit button starts, from the store as that run reads it.      *)
(***************************************************************************)
\* "Add Listing": Food ID is a number_input with min_value = max_food_id + 1.
AddListingSubmit(values) ==
    /\ pc = Idle
    /\ \E new_food_id \in (max_food_id(food_listings) + 1) .. MaxFoodId,
          v \in values \cup {EmptyNameValue},
          i \in DOMAIN providers :
          LET selected_provider_row == providers[i] IN
          IF v.food_name = "" \/ v.quantity <= 0
          THEN /\ last' = Call("add_listing", new_food_id, "error")
               /\ UNCHANGED <<food_listings, ever_food_ids>>
          ELSE /\ food_listings' =
                      add_food_listing_sql(food_listings, new_food_id, v.food_name,
                          v.quantity, v.expiry, selected_provider_row.Provider_ID,
                          selected_provider_row.Type, selected_provider_row.City,
                          v.food_type, v.meal_type)
               /\ last' = Call("add_listing", new_food_id, "success")
               /\ ever_food_ids' = ever_food_ids \cup {new_food_id}
    /\ shown' = <<>>
    /\ UNCHANGED <<providers, receivers, claims, pc, ever_claim_ids>>

\* "Update Listing": the id comes from a selectbox over the Food_IDs in the table.
UpdateListingSubmit(values) ==
    /\ pc = Idle
    /\ \E selected_listing_id \in FoodIds(food_listings), v \in values :
          /\ selected_listing_id # 0
          /\ food_listings' =
                 update_food_listing_sql(food_listings, selected_listing_id, v.food_name,
                                         v.quantity, v.expiry, v.food_type, v.meal_type)
          /\ last' = Call("update_listing", selected_listing_id, "success")
    /\ shown' = <<>>
    /\ UNCHANGED <<providers, receivers, claims, pc, ever_food_ids, ever_claim_ids>>

\* "Delete Listing": same selectbox.
DeleteListingSubmit ==
    /\ pc = Idle
    /\ \E selected_listing_id \in FoodIds(food_listings) :
          LET after == delete_food_listing_sql(food_listings, claims, selected_listing_id) IN
          /\ selected_listing_id # 0
          /\ food_listings' = after.food_listings
          /\ claims' = after.claims
          /\ last' = Call("delete_listing", selected_listing_id, "warning")
    /\ shown' = <<>>
    /\ UNCHANGED <<providers, receivers, pc, ever_food_ids, ever_claim_ids>>

\* "Submit Claim": Food ID is a number_input with min_value = 1; the claim id is
\* computed from the claims table in the same script run.
ClaimSubmit ==
    /\ pc = Idle
    /\ \E claim_food_id \in 1 .. MaxFoodId, i \in DOMAIN receivers,
          claim_status \in ClaimStatuses :
          LET claim_receiver_id == receivers[i].Receiver_ID
              claim_id == new_claim_id(claims) IN
          IF food_exists(food_listings, claim_food_id) = 0
          THEN /\ last' = Call("submit_claim", claim_food_id, "error")
               /\ UNCHANGED <<claims, ever_claim_ids>>
          ELSE /\ claim_id <= MaxClaimId
               /\ claims' = add_claim_sql(claims, claim_id, claim_food_id,
                                          claim_receiver_id, claim_status, Today)
               /\ last' = Call("submit_claim", claim_food_id, "success")
               /\ ever_claim_ids' = ever_claim_ids \cup {claim_id}
    /\ shown' = <<>>
    /\ UNCHANGED <<providers, receivers, food_listings, pc, ever_food_ids>>

AddListing == AddListingSubmit(CoreValues)

UpdateListing == UpdateListingSubmit(CoreValues)

Next ==
    \/ AddListing
    \/ UpdateListing
    \/ DeleteListingSubmit
    \/ ClaimSubmit

Spec == Init /\ [][Next]_vars

(***************************************************************************)
(* Properties of the form handlers (specification Spec).                   *)
(***************************************************************************)
NewClaim == claims'[Len(claims')]

SubmittedClaim == last'.op = "submit_claim" /\ last'.msg = "success"

AddedListing == last'.op = "add_listing" /\ last'.msg = "success"

\* C2: a claim submitted for a Food_ID that no listing in the store has is
\* answered with the error message and changes neither claims nor food_listings.
C2_InvalidReferenceNoMutation ==
    [][(last'.op = "submit_claim" /\ last'.id \notin FoodIds(food_listings))
         => /\ last'.msg = "error"
            /\ claims' = claims
            /\ food_listings' = food_listings]_vars

C2_Witness ==
    /\ last.op = "submit_claim"
    /\ last.msg = "error"
    /\ last.id \notin FoodIds(food_listings)
    /\ food_listings # <<>>
    /\ claims # <<>>

\* C3 as stated: the id of a new claim was never the id of any earlier claim,
\* deleted ones included, and likewise the Food_ID accepted for a new listing.
C3_IdsNeverReused ==
    [][/\ SubmittedClaim => NewClaim.Claim_ID \notin ever_claim_ids
       /\ AddedListing => last'.id \notin ever_food_ids]_vars

\* C3 amended: the id of a new claim is larger than the id of every claim in the
\* store when it is submitted, and the Food_ID accepted for a new listing is
\* larger than that of every listing in the store when it is added.
C3_IdsAboveCurrent ==
    [][/\ SubmittedClaim => \A k \in ClaimIds(claims) : k < NewClaim.Claim_ID
       /\ AddedListing => \A k \in FoodIds(food_listings) : k < last'.id]_vars

C3_Witness ==
    /\ last.op = "submit_claim"
    /\ last.msg = "success"
    /\ Len(claims) >= 2
    /\ Cardinality(ever_food_ids) > Len(food_listings)

\* C9: a new claim gets id 1 when the claims table is empty and the largest
\* Claim_ID plus one otherwise, and the Claim_IDs in the table are always
\* pairwise distinct.
C9_NextClaimId ==
    /\ [][SubmittedClaim =>
            /\ claims' = Append(claims, NewClaim)
            /\ claims = <<>> => NewClaim.Claim_ID = 1
            /\ claims # <<>> =>
                  /\ NewClaim.Claim_ID - 1 \in ClaimIds(claims)
                  /\ \A k \in ClaimIds(claims) : k <= NewClaim.Claim_ID - 1]_vars
    /\ [](\A i, j \in DOMAIN claims : claims[i].Claim_ID = claims[j].Claim_ID => i = j)

C9_Witness ==
    /\ last.op = "submit_claim"
    /\ last.msg = "success"
    /\ Len(claims) = 1
    /\ claims[1].Claim_ID = 1
    /\ ever_claim_ids # {1}

\* C10: every claim's Food_ID is the Food_ID of a listing in the store.
C10_NoOrphanedClaims ==
    \A i \in DOMAIN claims : claims[i].Food_ID \in FoodIds(food_listings)

C10_Witness ==
    /\ last.op = "delete_listing"
    /\ claims # <<>>
    /\ Cardinality(ever_claim_ids) > Len(claims)

\* C11: an update of listing id leaves that listing's Food_ID, Provider_ID,
\* Provider_Type and Location, every other listing and every claim as they were.
C11_UpdateFrame ==
    [][last'.op = "update_listing" =>
         /\ DOMAIN food_listings' = DOMAIN food_listings
         /\ \A i \in DOMAIN food_listings :
               IF food_listings[i].Food_ID = last'.id
               THEN /\ food_listings'[i].Food_ID = food_listings[i].Food_ID
                    /\ food_listings'[i].Provider_ID = food_listings[i].Provider_ID
                    /\ food_listings'[i].Provider_Type = food_listings[i].Provider_Type
                    /\ food_listings'[i].Location = food_listings[i].Location
               ELSE food_listings'[i] = food_listings[i]
         /\ claims' = claims]_vars

\* An update has rewritten a listing of the second provider while another
\* listing and a claim are in the store.
C11_Witness ==
    /\ last.op = "update_listing"
    /\ Len(food_listings) >= 2
    /\ claims # <<>>
    /\ \E i, j \in DOMAIN food_listings :
          /\ food_listings[i].Food_ID = last.id
          /\ food_listings[i].Food_Name = "Rice"
          /\ food_listings[i].Provider_ID = 2
          /\ food_listings[j].Food_ID # last.id
          /\ food_listings[j].Food_Name = "Bread"

(***************************************************************************)
(* The mutation layer called directly, with any Food_ID (specification     *)
(* SpecMutation).  execute_dml runs the statement and commits; it returns  *)
(* normally whatever the number of rows the statement touched.             *)
(***************************************************************************)
execute_dml(op, id) == Call(op, id, "returned")

CallAddFoodListing ==
    /\ pc = Idle
    /\ Len(food_listings) < MaxFoodId
    /\ \E food_id \in 1 .. MaxFoodId, v \in CoreValues :
          LET p == providers[1] IN
          /\ food_listings' =
                 add_food_listing_sql(food_listings, food_id, v.food_name, v.quantity,
                     v.expiry, p.Provider_ID, p.Type, p.City, v.food_type, v.meal_type)
          /\ last' = execute_dml("add_food_listing_sql", food_id)
          /\ ever_food_ids' = ever_food_ids \cup {food_id}
    /\ UNCHANGED <<providers, receivers, claims, shown, pc, ever_claim_ids>>

CallUpdateFoodListing ==
    /\ pc = Idle
    /\ \E food_id \in 1 .. MaxFoodId, v \in CoreValues :
          /\ food_listings' =
                 update_food_listing_sql(food_listings, food_id, v.food_name, v.quantity,
                                         v.expiry, v.food_type, v.meal_type)
          /\ last' = execute_dml("update_food_listing_sql", food_id)
    /\ UNCHANGED <<providers, receivers, claims, shown, pc, ever_food_ids, ever_claim_ids>>

CallDeleteFoodListing ==
    /\ pc = Idle
    /\ \E food_id \in 1 .. MaxFoodId :
          LET after == delete_food_listing_sql(food_listings, claims, food_id) IN
          /\ food_listings' = after.food_listings
          /\ claims' = after.claims
          /\ last' = execute_dml("delete_food_listing_sql", food_id)
    /\ UNCHANGED <<providers, receivers, shown, pc, ever_food_ids, ever_claim_ids>>

NextMutation ==
    \/ CallAddFoodListing
    \/ CallUpdateFoodListing
    \/ CallDeleteFoodListing

InitMutation == init_db(CsvValues, CsvProviders, {"Pending"})

SpecMutation == InitMutation /\ [][NextMutation]_vars

Count(t, r) == Cardinality({i \in DOMAIN t : t[i] = r})

\* C1: after delete_food_listing_sql(id) no listing and no claim has Food_ID = id,
\* and every listing and claim with another Food_ID is in the store as often as
\* before, unchanged.
C1_DeleteCascades ==
    [][last'.op = "delete_food_listing_sql" =>
         LET id == last'.id IN
         /\ \A i \in DOMAIN food_listings' : food_listings'[i].Food_ID # id
         /\ \A i \in DOMAIN claims' : claims'[i].Food_ID # id
         /\ \A r \in Range(food_listings) \cup Range(food_listings') :
               r.Food_ID # id => Count(food_listings', r) = Count(food_listings, r)
         /\ \A r \in Range(claims) \cup Range(claims') :
               r.Food_ID # id => Count(claims', r) = Count(claims, r)]_vars

C1_Witness ==
    /\ last.op = "delete_food_listing_sql"
    /\ last.id \in ever_food_ids
    /\ last.id \notin FoodIds(food_listings)
    /\ food_listings # <<>>
    /\ claims # <<>>
    /\ Cardinality(ever_claim_ids) > Len(claims)

\* C4: add_food_listing_sql with the Food_ID of a listing in the store is
\* rejected with an IntegrityError and food_listings is left as it was.
C4_DuplicateIdRejected ==
    [][(last'.op = "add_food_listing_sql" /\ last'.id \in FoodIds(food_listings))
         => /\ last'.msg = "IntegrityError"
            /\ food_listings' = food_listings]_vars

\* C5: update_food_listing_sql with a Food_ID that no listing has reports
\* NotFound to its caller and leaves the store as it was.
C5_UpdateMissingIdNotFound ==
    [][(last'.op = "update_food_listing_sql" /\ last'.id \notin FoodIds(food_listings))
         => /\ last'.msg = "NotFound"
            /\ food_listings' = food_listings
            /\ claims' = claims]_vars

(***************************************************************************)
(* Q14, food nearing expiry (specification SpecExpiry: listings loaded     *)
(* from the CSV file, added and updated, and the dashboard query).         *)
(***************************************************************************)
\* ORDER BY Expiry_Date ASC over TEXT values; rows with equal keys keep their order.
RECURSIVE OrderByExpiry(_)
OrderByExpiry(rows) ==
    IF rows = <<>> THEN <<>>
    ELSE LET i == CHOOSE i \in DOMAIN rows :
                     \A j \in DOMAIN rows :
                        \/ TextLess(rows[i].Expiry_Date, rows[j].Expiry_Date)
                        \/ (rows[i].Expiry_Date = rows[j].Expiry_Date /\ i <= j)
             rest == [k \in 1 .. Len(rows) - 1 |-> IF k < i THEN rows[k] ELSE rows[k + 1]]
         IN <<rows[i]>> \o OrderByExpiry(rest)

ExpiryColumns(r) ==
    [Food_Name |-> r.Food_Name, Quantity |-> r.Quantity, Expiry_Date |-> r.Expiry_Date,
     Location |-> r.Location, Provider_ID |-> r.Provider_ID]

ProjectExpiry(rows) == [i \in DOMAIN rows |-> ExpiryColumns(rows[i])]

\* WHERE Expiry_Date > '{today_str}' AND Expiry_Date <= DATE('{today_str}', '+{days} days')
get_food_nearing_expiry_sql(t, now, n) ==
    LET today_str == strftime_date(now)
        where(r) == /\ TextLess(today_str, r.Expiry_Date)
                    /\ TextLeq(r.Expiry_Date, sqlite_DATE(today_str, n))
    IN ProjectExpiry(OrderByExpiry(SelectSeq(t, where)))

DashboardNearingExpiry ==
    /\ pc = Idle
    /\ shown' = get_food_nearing_expiry_sql(food_listings, Today, days)
    /\ last' = Call("nearing_expiry", 0, "shown")
    /\ UNCHANGED <<providers, receivers, food_listings, claims, pc, ever_food_ids,
                   ever_claim_ids>>

AddListingExpiry == AddListingSubmit(ExpiryValues)

UpdateListingExpiry == UpdateListingSubmit(ExpiryValues)

NextExpiry ==
    \/ AddListingExpiry
    \/ UpdateListingExpiry
    \/ DashboardNearingExpiry

InitExpiry == init_db(ExpiryValues, CsvProviders, {})

SpecExpiry == InitExpiry /\ [][NextExpiry]_vars

\* The listings whose expiry day d has Today < d <= Today + n.
ExpiringWithin(t, n) ==
    SelectSeq(t, LAMBDA r : Today < ParseDay(r.Expiry_Date)
                            /\ ParseDay(r.Expiry_Date) <= Today + n)

\* C6: the nearing-expiry query with the default window shows exactly the
\* listings whose expiry day d has Today < d <= Today + 7, whether the listing
\* was loaded from the CSV file or written by the add or update form.
C6_NearingExpiryWindow ==
    last.op = "nearing_expiry" =>
        LET expected == ProjectExpiry(ExpiringWithin(food_listings, days)) IN
        \A r \in Range(shown) \cup Range(expected) : Count(shown, r) = Count(expected, r)

\* The same for the listings written by the forms alone: it holds of them.
C6_FormRowsOnly ==
    (last.op = "nearing_expiry"
        /\ \A i \in DOMAIN food_listings : Len(food_listings[i].Expiry_Date) = 10) =>
        LET expected == ProjectExpiry(ExpiringWithin(food_listings, days)) IN
        \A r \in Range(shown) \cup Range(expected) : Count(shown, r) = Count(expected, r)

(***************************************************************************)
(* Q1, providers and receivers per city (specification SpecCity: the two   *)
(* tables as the CSV files may hold them, and the dashboard query).        *)
(***************************************************************************)
Cities == {"CityA", "CityB", "CityC"}

CsvPartyIds == {1, 2}

\* FROM providers p LEFT JOIN receivers r ON p.City = r.City: one row per
\* matching pair, and one row with r NULL (here: no receiver) per provider
\* without a match.
left_join(P, R) ==
    LET matches == {x \in (DOMAIN P) \X (DOMAIN R) : P[x[1]].City = R[x[2]].City}
        unmatched == {i \in DOMAIN P : \A j \in DOMAIN R : R[j].City # P[i].City}
    IN {[p |-> P[x[1]], r |-> {R[x[2]]}] : x \in matches}
       \cup {[p |-> P[i], r |-> {}] : i \in unmatched}

\* COALESCE(p.City, r.City): p is never NULL in a LEFT JOIN from providers.
COALESCE_City(j) == j.p.City

CityRows(P, R) ==
    LET joined == left_join(P, R) IN
    {[City |-> c,
      NumProviders |-> Cardinality({j.p.Provider_ID : j \in {j \in joined : COALESCE_City(j) = c}}),
      NumReceivers |-> Cardinality(UNION {{x.Receiver_ID : x \in j.r} :
                                             j \in {j \in joined : COALESCE_City(j) = c}})] :
        c \in {COALESCE_City(j) : j \in joined}}

\* ORDER BY NumProviders DESC, NumReceivers DESC
CityOrdered(s) ==
    \A i, j \in DOMAIN s :
        i < j => \/ s[i].NumProviders > s[j].NumProviders
                 \/ /\ s[i].NumProviders = s[j].NumProviders
                    /\ s[i].NumReceivers >= s[j].NumReceivers

\* The results the query may return: the group rows in any order the ORDER BY allows.
get_providers_receivers_per_city_sql(P, R) ==
    LET rows == CityRows(P, R) IN
    {s \in [1 .. Cardinality(rows) -> rows] : Range(s) = rows /\ CityOrdered(s)}

DashboardCities ==
    /\ pc = Idle
    /\ shown' \in get_providers_receivers_per_city_sql(providers, receivers)
    /\ last' = Call("cities", 0, "shown")
    /\ UNCHANGED <<providers, receivers, food_listings, claims, pc, ever_food_ids,
                   ever_claim_ids>>

NextCity == DashboardCities

InitCity ==
    /\ \E present \in SUBSET CsvPartyIds : \E city \in [present -> Cities] :
          providers = LoadRows(present,
                               [n \in present |-> ProviderRow(n, "P", "Restaurant", city[n], "c")],
                               Cardinality(CsvPartyIds))
    /\ \E present \in SUBSET CsvPartyIds : \E city \in [present -> Cities] :
          receivers = LoadRows(present,
                               [n \in present |-> ReceiverRow(n, "R", "NGO", city[n])],
                               Cardinality(CsvPartyIds))
    /\ food_listings = <<>>
    /\ claims = <<>>
    /\ last = Call("init_db", 0, "success")
    /\ shown = <<>>
    /\ pc = Idle
    /\ ever_food_ids = {}
    /\ ever_claim_ids = {}

SpecCity == InitCity /\ [][NextCity]_vars

CitiesOf(t) == {t[i].City : i \in DOMAIN t}

\* C7: the query shows one row for every city of a provider or of a receiver,
\* with the numbers of providers and of receivers in that city, ordered by
\* providers descending, then receivers descending.
C7_EveryCityListed ==
    last.op = "cities" =>
        /\ \A c \in CitiesOf(providers) \cup CitiesOf(receivers) :
              \E i \in DOMAIN shown :
                 /\ shown[i].City = c
                 /\ shown[i].NumProviders =
                        Cardinality({providers[k].Provider_ID : k \in {k \in DOMAIN providers : providers[k].City = c}})
                 /\ shown[i].NumReceivers =
                        Cardinality({receivers[k].Receiver_ID : k \in {k \in DOMAIN receivers : receivers[k].City = c}})
                 /\ \A j \in DOMAIN shown : shown[j].City = c => j = i
        /\ \A i \in DOMAIN shown : shown[i].City \in CitiesOf(providers) \cup CitiesOf(receivers)
        /\ CityOrdered(shown)

(***************************************************************************)
(* delete_food_listing_sql statement by statement (specification SpecStmt):*)
(* execute_dml commits after each statement, so the store between the two  *)
(* DELETEs is a committed state of the shared connection.                  *)
(***************************************************************************)
DeleteClaimsStatement ==
    /\ pc = Idle
    /\ \E selected_listing_id \in FoodIds(food_listings) :
          /\ claims' = delete_claims_of_food(claims, selected_listing_id)
          /\ pc' = [at |-> "delete_listing", food_id |-> selected_listing_id,
                    removed |-> Len(claims) - Len(claims')]
          /\ last' = Call("delete_listing", selected_listing_id, "running")
    /\ shown' = <<>>
    /\ UNCHANGED <<providers, receivers, food_listings, ever_food_ids, ever_claim_ids>>

DeleteListingStatement ==
    /\ pc.at = "delete_listing"
    /\ food_listings' = delete_listing_row(food_listings, pc.food_id)
    /\ pc' = Idle
    /\ last' = Call("delete_listing", pc.food_id, "warning")
    /\ UNCHANGED <<providers, receivers, claims, shown, ever_food_ids, ever_claim_ids>>

NextStmt ==
    \/ AddListing
    \/ ClaimSubmit
    \/ DeleteClaimsStatement
    \/ DeleteListingStatement

SpecStmt == Init /\ [][NextStmt]_vars

\* C8: no committed store state has the claims of a listing removed by a
\* delete while that listing is still in food_listings.
C8_DeleteAtomic ==
    ~(/\ pc.at = "delete_listing"
      /\ pc.removed > 0
      /\ pc.food_id \in FoodIds(food_listings))

(***************************************************************************)
(* Two browser sessions on the one connection (specification               *)
(* SpecConcurrent).  init_db is an st.cache_resource, so every session's   *)
(* script run, each in its own thread, reads and writes the same store;    *)
(* the runs interleave between their store accesses.  A script run that a  *)
(* submit button starts reads the largest id first and inserts later.      *)
(***************************************************************************)
Sessions == {"A", "B"}

SessionIdle == [at |-> "idle", id |-> 0, food_id |-> 0]

\* max_claim_id / new_claim_id, read while the page is rendered
ClaimReadMaxId(s) ==
    /\ pc[s].at = "idle"
    /\ Len(claims) < MaxClaimId
    /\ new_claim_id(claims) <= MaxClaimId
    /\ \E claim_food_id \in 1 .. MaxFoodId :
          pc' = [pc EXCEPT ![s] = [at |-> "claim_check", id |-> new_claim_id(claims),
                                   food_id |-> claim_food_id]]
    /\ UNCHANGED <<providers, receivers, food_listings, claims, last, shown,
                   ever_food_ids, ever_claim_ids>>

\* if claim_button: food_exists = SELECT COUNT(*) ...; st.error when it is 0
ClaimCheckFood(s) ==
    /\ pc[s].at = "claim_check"
    /\ IF food_exists(food_listings, pc[s].food_id) = 0
       THEN /\ pc' = [pc EXCEPT ![s] = SessionIdle]
            /\ last' = Call("submit_claim", pc[s].food_id, "error")
       ELSE /\ pc' = [pc EXCEPT ![s].at = "claim_insert"]
            /\ UNCHANGED last
    /\ UNCHANGED <<providers, receivers, food_listings, claims, shown,
                   ever_food_ids, ever_claim_ids>>

\* add_claim_sql(new_claim_id, ...), with the id read earlier in the run
ClaimInsert(s) ==
    /\ pc[s].at = "claim_insert"
    /\ claims' = add_claim_sql(claims, pc[s].id, pc[s].food_id,
                               receivers[1].Receiver_ID, "Pending", Today)
    /\ pc' = [pc EXCEPT ![s] = SessionIdle]
    /\ last' = Call("submit_claim", pc[s].food_id, "success")
    /\ ever_claim_ids' = ever_claim_ids \cup {pc[s].id}
    /\ UNCHANGED <<providers, receivers, food_listings, shown, ever_food_ids>>

\* max_food_id, read while the page is rendered; Food ID entered >= max_food_id + 1
AddReadMaxId(s) ==
    /\ pc[s].at = "idle"
    /\ Len(food_listings) < MaxFoodId
    /\ \E new_food_id \in (max_food_id(food_listings) + 1) .. MaxFoodId :
          pc' = [pc EXCEPT ![s] = [at |-> "add_insert", id |-> new_food_id, food_id |-> 0]]
    /\ UNCHANGED <<providers, receivers, food_listings, claims, last, shown,
                   ever_food_ids, ever_claim_ids>>

\* add_food_listing_sql(new_food_id, ...), with the id accepted earlier in the run
AddInsert(s) ==
    /\ pc[s].at = "add_insert"
    /\ \E v \in CsvValues :
          LET p == providers[1] IN
          food_listings' =
              add_food_listing_sql(food_listings, pc[s].id, v.food_name, v.quantity,
                  v.expiry, p.Provider_ID, p.Type, p.City, v.food_type, v.meal_type)
    /\ pc' = [pc EXCEPT ![s] = SessionIdle]
    /\ last' = Call("add_listing", pc[s].id, "success")
    /\ ever_food_ids' = ever_food_ids \cup {pc[s].id}
    /\ UNCHANGED <<providers, receivers, claims, shown, ever_claim_ids>>

NextConcurrent ==
    \E s \in Sessions :
        \/ ClaimReadMaxId(s)
        \/ ClaimCheckFood(s)
        \/ ClaimInsert(s)
        \/ AddReadMaxId(s)
        \/ AddInsert(s)

InitConcurrent ==
    /\ load_csv(CsvValues, CsvProviders, {"Pending"})
    /\ pc = [s \in Sessions |-> SessionIdle]

SpecConcurrent == InitConcurrent /\ [][NextConcurrent]_vars

SharedId(ids) == \E i, j \in DOMAIN ids : i # j /\ ids[i] = ids[j]

ClaimIdColumn(c) == [i \in DOMAIN c |-> c[i].Claim_ID]

FoodIdColumn(t) == [i \in DOMAIN t |-> t[i].Food_ID]

\* C12: a session's insert goes through with the id it read earlier, also
\* when another session has meanwhile inserted that id: the table then holds
\* two claims with one Claim_ID (two listings with one Food_ID for add_listing).
C12_StaleIdInserted ==
    [][\A s \in Sessions :
         /\ (pc[s].at = "claim_insert" /\ pc'[s].at = "idle") =>
               /\ Len(claims') = Len(claims) + 1
               /\ NewClaim.Claim_ID = pc[s].id
               /\ pc[s].id \in ClaimIds(claims) => SharedId(ClaimIdColumn(claims'))
         /\ (pc[s].at = "add_insert" /\ pc'[s].at = "idle") =>
               /\ Len(food_listings') = Len(food_listings) + 1
               /\ food_listings'[Len(food_listings')].Food_ID = pc[s].id
               /\ pc[s].id \in FoodIds(food_listings) => SharedId(FoodIdColumn(food_listings'))]_vars

\* Both sessions are done, and the store, loaded with distinct ids, holds two
\* claims with one Claim_ID and two listings with one Food_ID.
C12_Witness ==
    /\ \A s \in Sessions : pc[s] = SessionIdle
    /\ SharedId(ClaimIdColumn(claims))
    /\ SharedId(FoodIdColumn(food_listings))

====
